---- MODULE Spec2Model ----
(***************************************************************************)
(* Model of the hyper-mcp-search plugin: the tool dispatcher (lib.rs), the  *)
(* SearXNG client (searxng.rs) and the redirect-following fetcher          *)
(* (browse.rs).  One tool call is a sequence of steps separated by the     *)
(* HTTP exchanges it performs; the host (HTTP transport, configuration) is *)
(* the environment and answers nondeterministically.                        *)
(***************************************************************************)
EXTENDS Integers, Sequences, FiniteSets, TLC

VARIABLES
    pc,          \* position of the plugin: "idle", "probe", "query", "fetch", "engines", "returned"
    input,       \* the CallToolRequest being served
    config,      \* what config::get returned for the keys read by this call
    requests,    \* requests issued by the SearXNG client in the current call, in order
    responses,   \* the host's answers to those requests, in order
    current_url, \* browse: current_url, the URL of its latest GET
    gets,        \* browse: number of GETs issued so far (iterations of its loop)
    fetched,     \* browse: the host's answer to the latest GET (or NoFetch)
    response,    \* simple_search: the SearXNGResponse it returns (or NoResponse)
    engines,     \* get_engines: the map it returns (or NoEngines)
    filter,      \* get_engines: the EngineFilter argument
    log,         \* lines written with info!/warn! by describe
    result       \* the value returned by the entry point

vars == <<pc, input, config, requests, responses, current_url, gets, fetched,
          response, engines, filter, log, result>>

----------------------------------------------------------------------------
(* Bounds of the model *)

MaxResults == 3      \* longest result list the backend returns
MaxScore == 2        \* scores are drawn from 0..MaxScore
MaxNumResults == 3   \* largest configured SEARXNG_NUM_RESULTS
MaxRedirects == 3    \* largest configured BROWSE_MAX_REDIRECTS
MaxEngines == 2      \* longest engines array returned by /config

----------------------------------------------------------------------------
(* Strings and options *)

\* Option<String>::None as returned by config::get(..).ok().flatten()
Absent == "<absent>"

unwrap_or(v, d) == IF v = Absent THEN d ELSE v

starts_with(s, p) == Len(s) >= Len(p) /\ SubSeq(s, 1, Len(p)) = p

\* str::parse::<u32>() / parse::<usize>(): -1 stands for Err
ParseLimit == MaxNumResults + MaxRedirects + 12
parse_uint(s) ==
    IF \E n \in 0..ParseLimit : ToString(n) = s
    THEN CHOOSE n \in 0..ParseLimit : ToString(n) = s
    ELSE -1

----------------------------------------------------------------------------
(* url crate, as far as the plugin uses it *)

SchemePrefixes == {"http://", "https://", "ftp://"}

HasScheme(s) == \E p \in SchemePrefixes : starts_with(s, p)

SchemeOf(s) == CHOOSE p \in SchemePrefixes : starts_with(s, p)

\* s without its first n characters
DropStr(s, n) == IF n >= Len(s) THEN "" ELSE SubSeq(s, n + 1, Len(s))

\* index of the first "/" of s at or after position i, Len(s)+1 if none
RECURSIVE FirstSlash(_, _)
FirstSlash(s, i) ==
    IF i > Len(s) THEN Len(s) + 1
    ELSE IF SubSeq(s, i, i) = "/" THEN i
    ELSE FirstSlash(s, i + 1)

\* index of the last "/" of s at or before position i, 0 if none
RECURSIVE LastSlash(_, _)
LastSlash(s, i) ==
    IF i < 1 THEN 0
    ELSE IF SubSeq(s, i, i) = "/" THEN i
    ELSE LastSlash(s, i - 1)

\* the host part of an absolute URL string
HostOf(s) ==
    LET rest == DropStr(s, Len(SchemeOf(s)))
    IN  SubSeq(rest, 1, FirstSlash(rest, 1) - 1)

ValidHost(h) == Len(h) > 0 /\ ~ starts_with(h, "[") /\ ~ starts_with(h, " ")

\* Url::parse(s).is_ok()
UrlParseOk(s) == HasScheme(s) /\ ValidHost(HostOf(s))

\* Url::parse(s).to_string(): a URL without a path gets the path "/"
UrlNormal(s) ==
    LET rest == DropStr(s, Len(SchemeOf(s)))
    IN  IF FirstSlash(rest, 1) > Len(rest) THEN s \o "/" ELSE s

\* scheme and authority of a parsed URL, without the path
OriginOf(s) == SchemeOf(s) \o HostOf(s)

PathOf(s) == DropStr(UrlNormal(s), Len(OriginOf(s)))

\* the URL string base.join(loc) would produce, before validation
JoinRaw(base, loc) ==
    IF HasScheme(loc) THEN loc
    ELSE IF starts_with(loc, "//")
         THEN SubSeq(SchemeOf(base), 1, Len(SchemeOf(base)) - 2) \o loc
    ELSE IF starts_with(loc, "/") THEN OriginOf(base) \o loc
    ELSE OriginOf(base)
            \o SubSeq(PathOf(base), 1, LastSlash(PathOf(base), Len(PathOf(base))))
            \o loc

\* base.join(loc).is_ok(), for a base that parsed
UrlJoinOk(base, loc) == UrlParseOk(JoinRaw(base, loc))

\* base.join(loc)?.to_string()
UrlJoin(base, loc) == UrlNormal(JoinRaw(base, loc))

----------------------------------------------------------------------------
(* JSON values (serde_json::Value), as far as the plugin inspects them *)

JMissing == [t |-> "missing", v |-> ""]      \* Map::get returned None
JStr(s) == [t |-> "string", v |-> s]
JNum(s) == [t |-> "number", v |-> s]
JBool(b) == [t |-> "bool", v |-> IF b THEN "true" ELSE "false"]

\* Value::as_bool().unwrap_or(d)
as_bool_or(j, d) == IF j.t = "bool" THEN j.v = "true" ELSE d

\* Value::as_str().is_some()
is_str(j) == j.t = "string"

----------------------------------------------------------------------------
(* HTTP responses of the host *)

Statuses == {0, 199, 200, 299, 300, 301, 399, 400, 404}

TransportError == "<transport error>"

\* response bodies; kind "empty" is the empty byte string, "binary" is not
\* valid UTF-8, "text" is valid UTF-8 that is not the expected JSON
PlainBodies == {[kind |-> k] : k \in {"empty", "binary", "text"}}

body_is_empty(b) == b.kind = "empty"

\* String::from_utf8(body).is_ok()
utf8_ok(b) == b.kind # "binary"

\* String::from_utf8(body).unwrap_or_else(|_| "Unknown error")
body_or_unknown(b) ==
    IF ~ utf8_ok(b) THEN "Unknown error"
    ELSE IF body_is_empty(b) THEN ""
    ELSE "<body>"

\* the sequences over S of length at most n
SeqsUpTo(S, n) == UNION {[1..k -> S] : k \in 0..n}

\* a result list of the backend: title i is the i-th result as sent
BackendResults ==
    {[i \in 1..Len(sc) |-> [title |-> i, score |-> sc[i]]] :
        sc \in SeqsUpTo(0..MaxScore, MaxResults)}

BackendTotals == {0, 1000}

\* bodies that deserialize into a SearXNGResponse
SearchJson ==
    {[kind |-> "json", results |-> r, number_of_results |-> n] :
        r \in BackendResults, n \in BackendTotals}

EngineEntries ==
    {[name |-> n, enabled |-> e] :
        n \in {JStr("a"), JStr("b"), JMissing, JNum("7")},
        e \in {JBool(TRUE), JBool(FALSE), JMissing, JStr("yes")}}

\* bodies of /config that are JSON: with an engines array, or without one
ConfigJson ==
    {[kind |-> "json", has_engines |-> TRUE, engines |-> a] :
        a \in SeqsUpTo(EngineEntries, MaxEngines)}
    \cup {[kind |-> "json", has_engines |-> FALSE, engines |-> <<>>]}

Response(err, status, location, body) ==
    [err |-> err, status |-> status, location |-> location, body |-> body]

\* what the host can answer to the /search request: any status with a body
\* that is no SearXNGResponse, every SearXNGResponse with status 200 and the
\* ones of at most one result with a status of each other kind, or a
\* transport error
SearchResponses ==
    {Response(FALSE, st, Absent, b) : st \in Statuses, b \in PlainBodies}
    \cup {Response(FALSE, 200, Absent, b) : b \in SearchJson}
    \cup {Response(FALSE, st, Absent, b) :
            st \in {0, 404}, b \in {j \in SearchJson : Len(j.results) <= 1}}
    \cup {Response(TRUE, 0, Absent, [kind |-> "empty"])}

\* what the host can answer to the /config request of the probe
ProbeResponses ==
    {Response(FALSE, st, Absent, b) : st \in Statuses, b \in PlainBodies}
    \cup {Response(TRUE, 0, Absent, [kind |-> "empty"])}

\* what the host can answer to the /config request of get_engines
EnginesResponses ==
    {Response(FALSE, st, Absent, b) : st \in {0, 200, 404}, b \in PlainBodies \cup ConfigJson}
    \cup {Response(TRUE, 0, Absent, [kind |-> "empty"])}

----------------------------------------------------------------------------
(* Configuration *)

DefaultBaseUrl == "http://localhost:8080"
DefaultNumResults == 5
DefaultMaxRedirects == 10

DefaultLanguage == "en"
DefaultSafeSearch == "0"

NoConfig ==
    [SEARXNG_BASE_URL |-> Absent, SEARXNG_NUM_RESULTS |-> Absent,
     SEARXNG_DEFAULT_CATEGORIES |-> Absent, SEARXNG_DEFAULT_ENGINES |-> Absent,
     SEARXNG_DEFAULT_LANGUAGE |-> Absent, SEARXNG_SAFE_SEARCH |-> Absent,
     BROWSE_FOLLOW_REDIRECTS |-> Absent, BROWSE_MAX_REDIRECTS |-> Absent]

BaseUrlSettings == {Absent, "http://searx", "searx"}

NumResultsSettings == {Absent, "many"} \cup {ToString(n) : n \in 0..MaxNumResults}

SafeSearchSettings == {Absent, "0", "1", "2", "3", "strict"}

LanguageSettings == {Absent, "fr"}

ListSettings == {Absent, "", "a, ,b"}

\* the settings SearXNGConfig::default() reads: the address and the limit in
\* every combination, and so the language with the safe-search level and
\* the two lists
SearchConfigs ==
    {[NoConfig EXCEPT !.SEARXNG_BASE_URL = b, !.SEARXNG_NUM_RESULTS = n] :
        b \in BaseUrlSettings, n \in NumResultsSettings}
    \cup {[NoConfig EXCEPT !.SEARXNG_DEFAULT_LANGUAGE = l, !.SEARXNG_SAFE_SEARCH = s] :
            l \in LanguageSettings, s \in SafeSearchSettings}
    \cup {[NoConfig EXCEPT !.SEARXNG_DEFAULT_CATEGORIES = c, !.SEARXNG_DEFAULT_ENGINES = e] :
            c \in ListSettings, e \in ListSettings}

\* SearXNGConfig::default().base_url
base_url(cfg) == unwrap_or(cfg.SEARXNG_BASE_URL, DefaultBaseUrl)

\* SearXNGConfig::default().num_results
num_results(cfg) ==
    IF cfg.SEARXNG_NUM_RESULTS = Absent \/ parse_uint(cfg.SEARXNG_NUM_RESULTS) < 0
    THEN DefaultNumResults
    ELSE parse_uint(cfg.SEARXNG_NUM_RESULTS)

\* index of the first "," of s at or after position i, Len(s)+1 if none
RECURSIVE FirstComma(_, _)
FirstComma(s, i) ==
    IF i > Len(s) THEN Len(s) + 1
    ELSE IF SubSeq(s, i, i) = "," THEN i
    ELSE FirstComma(s, i + 1)

\* str::split(','): the pieces between the commas, empty ones included
RECURSIVE split(_)
split(s) ==
    LET i == FirstComma(s, 1)
    IN  IF i > Len(s) THEN <<s>>
        ELSE <<SubSeq(s, 1, i - 1)>> \o split(DropStr(s, i))

\* str::trim(), the white space being the blank
RECURSIVE trim(_)
trim(s) ==
    IF s = "" THEN s
    ELSE IF SubSeq(s, 1, 1) = " " THEN trim(DropStr(s, 1))
    ELSE IF SubSeq(s, Len(s), Len(s)) = " " THEN trim(SubSeq(s, 1, Len(s) - 1))
    ELSE s

\* parse_comma_separated_from_string
parse_comma_separated_from_string(s) ==
    SelectSeq([i \in 1..Len(split(s)) |-> trim(split(s)[i])], LAMBDA p : p # "")

\* [String]::join(",")
RECURSIVE join(_)
join(v) ==
    IF v = <<>> THEN ""
    ELSE Head(v) \o (IF Len(v) > 1 THEN "," ELSE "") \o join(Tail(v))

\* SearXNGConfig::default().default_categories
default_categories(cfg) ==
    parse_comma_separated_from_string(unwrap_or(cfg.SEARXNG_DEFAULT_CATEGORIES, ""))

\* SearXNGConfig::default().default_engines
default_engines(cfg) ==
    parse_comma_separated_from_string(unwrap_or(cfg.SEARXNG_DEFAULT_ENGINES, ""))

\* SearXNGConfig::default().language
language(cfg) == unwrap_or(cfg.SEARXNG_DEFAULT_LANGUAGE, DefaultLanguage)

\* the SafeSearch levels, as u8
SafeSearchNone == 0
SafeSearchModerate == 1
SafeSearchStrict == 2

\* the default of the safe-search setting read as the default of the
\* language is: the name of the moderate level
safe_search_default_moderate(cfg) ==
    LET s == unwrap_or(cfg.SEARXNG_SAFE_SEARCH, "1")
    IN  IF s = "0" THEN SafeSearchNone
        ELSE IF s = "2" THEN SafeSearchStrict
        ELSE SafeSearchModerate

\* SearXNGConfig::default().safe_search
safe_search(cfg) ==
    LET s == unwrap_or(cfg.SEARXNG_SAFE_SEARCH, DefaultSafeSearch)
    IN  IF s = "0" THEN SafeSearchNone
        ELSE IF s = "2" THEN SafeSearchStrict
        ELSE SafeSearchModerate

----------------------------------------------------------------------------
(* The success predicate, once per place the source writes it *)

search_is_success(resp) ==
    (resp.status >= 200 /\ resp.status < 300)
    \/ (resp.status = 0 /\ ~ body_is_empty(resp.body))

\* a probe that accepts every answer
test_connection_accepts_all(resp) == resp.status >= 0

test_connection_is_success(resp) ==
    (resp.status >= 200 /\ resp.status < 300)
    \/ (resp.status = 0 /\ ~ body_is_empty(resp.body))

get_engines_is_success(resp) ==
    (resp.status >= 200 /\ resp.status < 300)
    \/ (resp.status = 0 /\ ~ body_is_empty(resp.body))

\* a predicate without the status-0 clause
browse_is_success_2xx_only(resp) == resp.status >= 200 /\ resp.status < 300

browse_is_success(resp) ==
    (resp.status >= 200 /\ resp.status < 300)
    \/ (resp.status = 0 /\ ~ body_is_empty(resp.body))

----------------------------------------------------------------------------
(* Results: anyhow::Result<T> *)

Ok(v) == [ok |-> TRUE, value |-> v, error |-> ""]
Err(e) == [ok |-> FALSE, value |-> <<>>, error |-> e]

----------------------------------------------------------------------------
(* SearXNGClient::search and simple_search (searxng.rs) *)

\* an HttpRequest: the address without its query, and the pairs of the query
\* in the order extend_pairs appends them
Request(url) == [method |-> "GET", url |-> url, query |-> <<>>]

\* a comparator that also puts equal scores out of order
score_cmp_ties_less(a, b) ==
    IF b.score <= a.score THEN -1 ELSE 1

\* the closure given to sort_by: b.score.partial_cmp(&a.score), as -1, 0, 1
score_cmp(a, b) ==
    IF b.score < a.score THEN -1
    ELSE IF b.score > a.score THEN 1
    ELSE 0

\* slice::sort_by is a stable sort: an element goes after every element it
\* does not compare Less than
RECURSIVE insert_sorted(_, _)
insert_sorted(sorted, x) ==
    IF sorted = <<>> THEN <<x>>
    ELSE IF score_cmp(x, Head(sorted)) < 0 THEN <<x>> \o sorted
    ELSE <<Head(sorted)>> \o insert_sorted(Tail(sorted), x)

RECURSIVE sort_by(_)
sort_by(v) ==
    IF v = <<>> THEN <<>>
    ELSE insert_sorted(sort_by(SubSeq(v, 1, Len(v) - 1)), v[Len(v)])

\* a truncation that keeps one element too many
truncate_one_more(v, n) == IF n + 1 < Len(v) THEN SubSeq(v, 1, n + 1) ELSE v

\* Vec::truncate
truncate(v, n) == IF n < Len(v) THEN SubSeq(v, 1, n) ELSE v

\* a ranking that also rewrites the total when the list is exactly at the limit
rank_rewrites_at_limit(resp, limit) ==
    LET sorted == sort_by(resp.results)
    IN  IF Len(sorted) >= limit
        THEN [results |-> truncate(sorted, limit),
              number_of_results |-> Len(truncate(sorted, limit))]
        ELSE [results |-> sorted, number_of_results |-> resp.number_of_results]

\* the sort and the truncation of simple_search
rank(resp, limit) ==
    LET sorted == sort_by(resp.results)
    IN  IF Len(sorted) > limit
        THEN [results |-> truncate(sorted, limit),
              number_of_results |-> Len(truncate(sorted, limit))]
        ELSE [results |-> sorted, number_of_results |-> resp.number_of_results]

\* None of an Option<u32> or an Option<SafeSearch>
NoNumber == -1

\* SearchParams::default()
DefaultParams ==
    [query |-> "", categories |-> Absent, engines |-> Absent, language |-> Absent,
     pageno |-> NoNumber, time_range |-> Absent, safe_search |-> NoNumber]

\* a request building that pushes every optional parameter, None as ""
push_always(key, v) == <<(<<key, IF v = Absent THEN "" ELSE v>>)>>

\* the pair of an optional parameter: pushed when it is Some
push_if_some(key, v) == IF v = Absent THEN <<>> ELSE <<(<<key, v>>)>>

\* u32::to_string of an optional page number
pageno_string(p) == IF p = NoNumber THEN Absent ELSE ToString(p)

\* search: the query_params vector
query_params(cfg, params) ==
    <<(<<"q", params.query>>), (<<"format", "json">>)>>
    \o push_if_some("categories", params.categories)
    \o push_if_some("engines", params.engines)
    \o <<(<<"language", unwrap_or(params.language, language(cfg))>>)>>
    \o push_if_some("pageno", pageno_string(params.pageno))
    \o push_if_some("time_range", params.time_range)
    \o <<(<<"safesearch", ToString(IF params.safe_search = NoNumber
                                   THEN safe_search(cfg) ELSE params.safe_search)>>)>>

\* search: the request it sends
search_request(cfg, params) ==
    [Request(base_url(cfg) \o "/search") EXCEPT !.query = query_params(cfg, params)]

\* simple_search: the SearchParams it hands to search
simple_search_params(cfg, query) ==
    [DefaultParams EXCEPT
        !.query = query,
        !.engines = IF default_engines(cfg) # <<>>
                    THEN join(default_engines(cfg)) ELSE Absent,
        !.categories = IF default_categories(cfg) # <<>>
                       THEN join(default_categories(cfg)) ELSE Absent]

\* search, from the host's answer on
search_outcome(resp) ==
    IF resp.err THEN Err("HTTP request failed: " \o TransportError)
    ELSE IF ~ search_is_success(resp)
         THEN Err("HTTP Error: " \o ToString(resp.status) \o " - "
                    \o body_or_unknown(resp.body))
    ELSE IF resp.body.kind # "json" THEN Err("Failed to parse response: <serde error>")
    ELSE Ok([results |-> resp.body.results,
             number_of_results |-> resp.body.number_of_results])

\* simple_search, from the host's answer on
simple_search_outcome(cfg, resp) ==
    LET r == search_outcome(resp)
    IN  IF r.ok THEN Ok(rank(r.value, num_results(cfg))) ELSE r

\* test_connection, from the host's answer on
test_connection_outcome(resp) ==
    IF resp.err THEN Err("Connection test failed: " \o TransportError)
    ELSE Ok(test_connection_is_success(resp))

\* serde_json::to_string(&response): the titles of the results, in order
RECURSIVE titles_json(_)
titles_json(v) ==
    IF v = <<>> THEN ""
    ELSE ToString(Head(v).title) \o (IF Len(v) > 1 THEN "," ELSE "") \o titles_json(Tail(v))

to_string(resp) == "{results:[" \o titles_json(resp.results) \o "]}"

----------------------------------------------------------------------------
(* The dispatcher (lib.rs) *)

ToolNames == {"search", "browse", "frobnicate"}

QueryArgs == {JMissing, JNum("7"), JStr(""), JStr("rust")}
UrlArgs == {JMissing, JNum("7"), JStr(""), JStr("http://a/p"), JStr("a/p")}

\* a CallToolRequest: the tool name and the two arguments the tools look up;
\* the argument a tool does not look up is absent or a valid one
Inputs ==
    {in \in [name : ToolNames, arguments : [query : QueryArgs, url : UrlArgs]] :
        /\ in.name = "search" => in.arguments.url \in {JMissing, JStr("http://a/p")}
        /\ in.name = "browse" => in.arguments.query \in {JMissing, JStr("rust")}}

NoInput == [name |-> "", arguments |-> [query |-> JMissing, url |-> JMissing]]

\* Ok(CallToolResult {..}) with one text content
ToolError(text) == [ret |-> "Ok", is_error |-> TRUE, text |-> text, mime_type |-> Absent]
ToolSuccess(text, mime) == [ret |-> "Ok", is_error |-> FALSE, text |-> text, mime_type |-> mime]

NoResult == [ret |-> "", is_error |-> FALSE, text |-> "", mime_type |-> Absent]
NoResponse == Err("")
NoEngines == Err("")

\* a wrapping that hands the error of simple_search on with `?`
search_tool_result_propagates(r) ==
    IF r.ok THEN ToolSuccess(to_string(r.value), "application/json")
    ELSE [ret |-> "Err", is_error |-> FALSE, text |-> r.error, mime_type |-> Absent]

\* the wrapping of simple_search's outcome by search
search_tool_result(r) ==
    IF r.ok THEN ToolSuccess(to_string(r.value), "application/json")
    ELSE ToolError("Search failed: " \o r.error)

\* the wrapping of test_connection's failures by search
probe_tool_result(t) ==
    IF ~ t.ok THEN ToolError("Connection test failed: " \o t.error)
    ELSE ToolError("Unable to connect to SearXNG server")

\* an argument check that forgets the emptiness test
valid_arg_any_string(j) == is_str(j)

\* the argument check of search and browse_tool
valid_arg(j) == is_str(j) /\ j.v # ""

Idle == pc = "idle"

NoFetch == [err |-> FALSE, status |-> -1, location |-> Absent, body |-> [kind |-> "empty"]]

\* nothing of an earlier call is left when a call starts
Fresh ==
    /\ responses' = <<>>
    /\ fetched' = NoFetch
    /\ response' = NoResponse
    /\ engines' = NoEngines

Init ==
    /\ pc = "idle"
    /\ input = NoInput
    /\ config = NoConfig
    /\ requests = <<>>
    /\ responses = <<>>
    /\ current_url = ""
    /\ gets = 0
    /\ fetched = NoFetch
    /\ response = NoResponse
    /\ engines = NoEngines
    /\ filter = ""
    /\ log = <<>>
    /\ result = NoResult

\* call with an unknown tool name
CallUnknown(in) ==
    /\ Idle
    /\ in.name \notin {"search", "browse"}
    /\ Fresh
    /\ input' = in
    /\ config' = NoConfig
    /\ requests' = <<>>
    /\ current_url' = ""
    /\ gets' = 0
    /\ filter' = ""
    /\ log' = <<>>
    /\ result' = ToolError("Unknown tool: " \o in.name)
    /\ pc' = "returned"

\* call of search, up to the request of test_connection
CallSearch(in, cfg) ==
    /\ Idle
    /\ in.name = "search"
    /\ Fresh
    /\ input' = in
    /\ current_url' = ""
    /\ gets' = 0
    /\ filter' = ""
    /\ log' = <<>>
    /\ IF ~ valid_arg(in.arguments.query)
       THEN /\ config' = NoConfig
            /\ requests' = <<>>
            /\ result' = ToolError("Please provide a non-empty query string")
            /\ pc' = "returned"
       ELSE /\ config' = cfg
            /\ requests' = <<Request(base_url(cfg) \o "/config")>>
            /\ result' = NoResult
            /\ pc' = "probe"

\* search, from the answer to the probe up to the request of search
ProbeResponse(resp) ==
    /\ pc = "probe"
    /\ responses' = Append(responses, resp)
    /\ LET t == test_connection_outcome(resp)
       IN  IF ~ t.ok \/ ~ t.value
           THEN /\ result' = probe_tool_result(t)
                /\ requests' = requests
                /\ pc' = "returned"
           ELSE IF ~ UrlParseOk(base_url(config) \o "/search")
           THEN /\ result' = search_tool_result(Err("<url parse error>"))
                /\ requests' = requests
                /\ pc' = "returned"
           ELSE /\ result' = NoResult
                /\ requests' = Append(requests,
                        search_request(config,
                            simple_search_params(config, input.arguments.query.v)))
                /\ pc' = "query"
    /\ UNCHANGED <<input, config, current_url, gets, fetched, response, engines, filter, log>>

\* the SearchParams a caller of SearXNGClient::search can hand over
ParamSets ==
    [query : {"rust"}, categories : {Absent, "news"}, engines : {Absent, "ddg"},
     language : {Absent, "de"}, pageno : {NoNumber, 2}, time_range : {Absent, "day"},
     safe_search : {NoNumber, SafeSearchNone, SafeSearchStrict}]

\* the configurations of a client that is handed SearchParams: the defaults
\* with every SearchParams, a configured language and level with the
\* SearchParams that differ in the two overrides
ClientCalls ==
    {c \in [params : ParamSets,
            config : {NoConfig, [NoConfig EXCEPT !.SEARXNG_DEFAULT_LANGUAGE = "fr",
                                                 !.SEARXNG_SAFE_SEARCH = "2"]}] :
        c.config # NoConfig =>
            /\ c.params.categories = Absent /\ c.params.engines = Absent
            /\ c.params.pageno = NoNumber /\ c.params.time_range = Absent}

\* SearXNGClient::search called with SearchParams, up to its request
ClientSearch(c) ==
    /\ Idle
    /\ Fresh
    /\ input' = [name |-> "SearXNGClient::search", arguments |-> c.params]
    /\ config' = c.config
    /\ current_url' = ""
    /\ gets' = 0
    /\ filter' = ""
    /\ log' = <<>>
    /\ result' = NoResult
    /\ IF ~ UrlParseOk(base_url(c.config) \o "/search")
       THEN /\ requests' = <<>>
            /\ pc' = "returned"
       ELSE /\ requests' = <<search_request(c.config, c.params)>>
            /\ pc' = "query"

\* search, from the answer to the query on: within the search tool, and
\* called with SearchParams
QueryResponse(resp) ==
    /\ pc = "query"
    /\ responses' = Append(responses, resp)
    /\ IF input.name = "search"
       THEN LET r == simple_search_outcome(config, resp)
            IN  /\ response' = r
                /\ result' = search_tool_result(r)
       ELSE /\ response' = search_outcome(resp)
            /\ result' = NoResult
    /\ pc' = "returned"
    /\ UNCHANGED <<input, config, requests, current_url, gets, fetched, engines, filter, log>>

----------------------------------------------------------------------------
(* browse (browse.rs) *)

FollowSettings == {Absent, "true", "false"}

MaxRedirectsSettings == {Absent, "lots"} \cup {ToString(n) : n \in 0..MaxRedirects}

\* the settings browse reads
BrowseConfigs ==
    {[NoConfig EXCEPT !.BROWSE_FOLLOW_REDIRECTS = f, !.BROWSE_MAX_REDIRECTS = m] :
        f \in FollowSettings, m \in MaxRedirectsSettings}

follow_redirects(cfg) == unwrap_or(cfg.BROWSE_FOLLOW_REDIRECTS, "false") = "true"

max_redirects(cfg) ==
    LET n == parse_uint(unwrap_or(cfg.BROWSE_MAX_REDIRECTS, ToString(DefaultMaxRedirects)))
    IN  IF n < 0 THEN DefaultMaxRedirects ELSE n

\* values of the location header: none, a path, an absolute URL, a
\* scheme-relative reference with an invalid host, a string that begins
\* with "http" and is no URL
Locations == {Absent, "/new", "http://b/q", "//[", "httpx"}

FetchResponses ==
    {Response(FALSE, st, loc, b) : st \in Statuses, loc \in Locations, b \in PlainBodies}
    \cup {Response(TRUE, 0, Absent, [kind |-> "empty"])}

\* a redirect test that does not look at follow_redirects
is_redirect_always_follows(cfg, resp) ==
    /\ resp.status >= 300
    /\ resp.status < 400
    /\ resp.location # Absent

\* the condition under which the loop resolves a location and continues
is_redirect(cfg, resp) ==
    /\ resp.status >= 300
    /\ resp.status < 400
    /\ follow_redirects(cfg)
    /\ resp.location # Absent

\* a resolution that goes on with the location as given when it cannot be
\* resolved
resolve_location_lenient(cur, location) ==
    IF starts_with(location, "http") THEN Ok(location)
    ELSE IF ~ UrlParseOk(cur) \/ ~ UrlJoinOk(cur, location) THEN Ok(location)
    ELSE Ok(UrlJoin(cur, location))

\* new_url of the redirect branch
resolve_location(cur, location) ==
    IF starts_with(location, "http") THEN Ok(location)
    ELSE IF ~ UrlParseOk(cur) THEN Err("Failed to parse current URL: <url parse error>")
    ELSE IF ~ UrlJoinOk(cur, location)
         THEN Err("Failed to resolve relative URL: <url parse error>")
    ELSE Ok(UrlJoin(cur, location))

\* (?i): the lower-case letter of a letter of the tag names
lower_char(c) ==
    CASE c = "S" -> "s" [] c = "T" -> "t" [] c = "Y" -> "y" [] c = "L" -> "l"
      [] c = "E" -> "e" [] c = "C" -> "c" [] c = "R" -> "r" [] c = "I" -> "i"
      [] c = "P" -> "p" [] OTHER -> c

RECURSIVE lower(_)
lower(s) == IF s = "" THEN "" ELSE lower_char(SubSeq(s, 1, 1)) \o lower(DropStr(s, 1))

\* index of the first occurrence of p in s at or after position i, 0 if none
RECURSIVE find(_, _, _)
find(s, p, i) ==
    IF i + Len(p) - 1 > Len(s) THEN 0
    ELSE IF SubSeq(s, i, i + Len(p) - 1) = p THEN i
    ELSE find(s, p, i + 1)

\* the match of (?is)<tag[^>]*>.*?</tag> that starts at the first character
\* of low, a text in lower case: the index of its last character, 0 if
\* there is none. [^>]* ends at the first ">", .*? at the first "</tag>"
match_end(low, tag) ==
    IF ~ starts_with(low, "<" \o tag) THEN 0
    ELSE LET gt == find(low, ">", Len(tag) + 2)
         IN  IF gt = 0 THEN 0
             ELSE LET close == find(low, "</" \o tag \o ">", gt + 1)
                  IN  IF close = 0 THEN 0 ELSE close + Len(tag) + 2

\* Regex::replace_all(s, "") for the pattern of tag: the matches, leftmost
\* first and not overlapping, are left out; low is s in lower case
RECURSIVE replace_all(_, _, _)
replace_all(s, low, tag) ==
    IF s = "" THEN ""
    ELSE LET e == match_end(low, tag)
         IN  IF e = 0
             THEN SubSeq(s, 1, 1) \o replace_all(DropStr(s, 1), DropStr(low, 1), tag)
             ELSE replace_all(DropStr(s, e), DropStr(low, e), tag)

\* strip_styles_and_scripts: the style pass, then the script pass
strip_styles_and_scripts(html) ==
    LET without_styles == replace_all(html, lower(html), "style")
    IN  replace_all(without_styles, lower(without_styles), "script")

\* html2md::parse_html(&strip_styles_and_scripts(&html))
markdown_of(b) == IF body_is_empty(b) THEN "" ELSE "<markdown>"

\* the part of the loop body after the redirect branch
terminal_outcome(resp) ==
    IF ~ browse_is_success(resp)
    THEN Err("HTTP Error: " \o ToString(resp.status) \o " - " \o body_or_unknown(resp.body))
    ELSE IF ~ utf8_ok(resp.body) THEN Err("Failed to decode response body: <utf8 error>")
    ELSE Ok(markdown_of(resp.body))

\* the wrapping of browse's outcome by browse_tool
browse_tool_result(r) ==
    IF r.ok THEN ToolSuccess(r.value, "text/markdown")
    ELSE ToolError("Browse failed: " \o r.error)

\* a loop that tests its budget only after the first iteration
more_iterations_after_first(cfg, n) == n = 0 \/ n < max_redirects(cfg)

\* a loop that runs one iteration more than max_redirects
more_iterations_inclusive(cfg, n) == n <= max_redirects(cfg)

\* the loop of browse has more iterations to run after n of them
more_iterations(cfg, n) == n < max_redirects(cfg)

\* call of browse, up to the first GET
CallBrowse(in, cfg) ==
    /\ Idle
    /\ in.name = "browse"
    /\ Fresh
    /\ input' = in
    /\ requests' = <<>>
    /\ filter' = ""
    /\ log' = <<>>
    /\ IF ~ valid_arg(in.arguments.url)
       THEN /\ config' = NoConfig
            /\ current_url' = ""
            /\ gets' = 0
            /\ result' = ToolError("Please provide a non-empty url string")
            /\ pc' = "returned"
       ELSE /\ config' = cfg
            /\ current_url' = in.arguments.url.v
            /\ IF more_iterations(cfg, 0)
               THEN /\ gets' = 1
                    /\ result' = NoResult
                    /\ pc' = "fetch"
               ELSE /\ gets' = 0
                    /\ result' = browse_tool_result(Err("Too many redirects"))
                    /\ pc' = "returned"

\* browse, from the answer to a GET up to the next GET or the return
FetchResponse(resp) ==
    /\ pc = "fetch"
    /\ fetched' = resp
    /\ IF resp.err
       THEN /\ result' = browse_tool_result(Err("HTTP request failed: " \o TransportError))
            /\ pc' = "returned"
            /\ UNCHANGED <<current_url, gets>>
       ELSE IF is_redirect(config, resp)
       THEN LET new_url == resolve_location(current_url, resp.location)
            IN  IF ~ new_url.ok
                THEN /\ result' = browse_tool_result(new_url)
                     /\ pc' = "returned"
                     /\ UNCHANGED <<current_url, gets>>
                ELSE /\ current_url' = new_url.value
                     /\ IF more_iterations(config, gets)
                        THEN /\ gets' = gets + 1
                             /\ result' = NoResult
                             /\ pc' = "fetch"
                        ELSE /\ gets' = gets
                             /\ result' = browse_tool_result(Err("Too many redirects"))
                             /\ pc' = "returned"
       ELSE /\ result' = browse_tool_result(terminal_outcome(resp))
            /\ pc' = "returned"
            /\ UNCHANGED <<current_url, gets>>
    /\ UNCHANGED <<input, config, requests, responses, response, engines, filter, log>>

----------------------------------------------------------------------------
(* SearXNGClient::get_engines (searxng.rs) and describe (lib.rs) *)

EngineFilters == {"Enabled", "Disabled", "All"}

\* a match whose Disabled arm is the complement of its Enabled arm
include_complement(f, engine) ==
    CASE f = "All" -> TRUE
      [] f = "Enabled" -> as_bool_or(engine.enabled, FALSE)
      [] f = "Disabled" -> ~ as_bool_or(engine.enabled, FALSE)

\* the match on the filter
include(f, engine) ==
    CASE f = "All" -> TRUE
      [] f = "Enabled" -> as_bool_or(engine.enabled, FALSE)
      [] f = "Disabled" -> ~ as_bool_or(engine.enabled, TRUE)

\* HashMap::insert
map_insert(m, k, v) == [x \in DOMAIN m \cup {k} |-> IF x = k THEN v ELSE m[x]]

EmptyMap == [x \in {} |-> <<>>]

\* the loop over the engines array, first entry first
RECURSIVE collect_engines(_, _)
collect_engines(f, arr) ==
    IF arr = <<>> THEN EmptyMap
    ELSE LET m == collect_engines(f, SubSeq(arr, 1, Len(arr) - 1))
             engine == arr[Len(arr)]
         IN  IF is_str(engine.name) /\ include(f, engine)
             THEN map_insert(m, engine.name.v, engine)
             ELSE m

\* get_engines, from the host's answer on
get_engines_outcome(f, resp) ==
    IF resp.err THEN Err("Failed to get engines: " \o TransportError)
    ELSE IF ~ get_engines_is_success(resp) THEN Err("Unable to get search engines")
    ELSE IF resp.body.kind # "json" THEN Err("Failed to parse config: <serde error>")
    ELSE IF ~ resp.body.has_engines THEN Err("Unexpected response format")
    ELSE Ok(collect_engines(f, resp.body.engines))

\* the settings get_engines reads through SearXNGConfig::default()
EngineConfigs == {[NoConfig EXCEPT !.SEARXNG_BASE_URL = b] : b \in BaseUrlSettings}

\* the listing describe returns
ToolListing == [ret |-> "Ok", tools |-> <<"search", "browse">>]

\* a describe that hands the error of get_engines on with `?`
describe_result_propagates(r) ==
    IF r.ok THEN ToolListing ELSE [ret |-> "Err", tools |-> <<>>]

\* what describe returns after the match on the outcome of get_engines
describe_result(r) == ToolListing

\* the line describe logs for the outcome of get_engines
describe_log(r) ==
    IF r.ok THEN "info: Available SearXNG engines"
    ELSE "warn: Failed to fetch SearXNG engines: " \o r.error

\* get_engines(f) up to its request; describe calls it with Enabled
CallGetEngines(caller, f, cfg) ==
    /\ Idle
    /\ caller = "describe" => f = "Enabled"
    /\ Fresh
    /\ input' = [NoInput EXCEPT !.name = caller]
    /\ config' = cfg
    /\ requests' = <<Request(base_url(cfg) \o "/config")>>
    /\ current_url' = ""
    /\ gets' = 0
    /\ filter' = f
    /\ log' = <<>>
    /\ result' = NoResult
    /\ pc' = "engines"

\* get_engines from the answer on, and the rest of describe
EnginesResponse(resp) ==
    /\ pc = "engines"
    /\ responses' = Append(responses, resp)
    /\ LET r == get_engines_outcome(filter, resp)
       IN  /\ engines' = r
           /\ IF input.name = "describe"
              THEN /\ log' = <<describe_log(r)>>
                   /\ result' = describe_result(r)
              ELSE /\ log' = log
                   /\ result' = NoResult
    /\ pc' = "returned"
    /\ UNCHANGED <<input, config, requests, current_url, gets, fetched, response, filter>>

----------------------------------------------------------------------------
(* The specification *)

\* the entry point has returned; the plugin waits for the next call, and
\* nothing of the call is kept (every call builds its own client and state)
Return ==
    /\ pc = "returned"
    /\ pc' = "idle"
    /\ input' = NoInput
    /\ config' = NoConfig
    /\ requests' = <<>>
    /\ responses' = <<>>
    /\ current_url' = ""
    /\ gets' = 0
    /\ fetched' = NoFetch
    /\ response' = NoResponse
    /\ engines' = NoEngines
    /\ filter' = ""
    /\ log' = <<>>
    /\ result' = NoResult

Next ==
    \/ Idle /\ \E in \in Inputs : CallUnknown(in)
    \/ Idle /\ \E in \in Inputs, cfg \in SearchConfigs : CallSearch(in, cfg)
    \/ pc = "probe" /\ \E resp \in ProbeResponses : ProbeResponse(resp)
    \/ Idle /\ \E c \in ClientCalls : ClientSearch(c)
    \/ pc = "query" /\ \E resp \in SearchResponses : QueryResponse(resp)
    \/ Idle /\ \E in \in Inputs, cfg \in BrowseConfigs : CallBrowse(in, cfg)
    \/ pc = "fetch" /\ \E resp \in FetchResponses : FetchResponse(resp)
    \/ Idle /\ \E c \in {"describe", "get_engines"}, f \in EngineFilters, cfg \in EngineConfigs :
          CallGetEngines(c, f, cfg)
    \/ pc = "engines" /\ \E resp \in EnginesResponses : EnginesResponse(resp)
    \/ Return

Spec == Init /\ [][Next]_vars

----------------------------------------------------------------------------
(* The sanitiser on its own: strip_styles_and_scripts applied to a page *)

MaxPieces == 5       \* most pieces a page is made of

\* pieces of a page: the tags of the two elements, in one letter case or
\* another and with an attribute, the two halves of a tag, and text
HtmlPieces == {"<STYLE a>", "</style>", "<script>", "</Script>", "<sty", "le>", "x"}

RECURSIVE concat(_)
concat(q) == IF q = <<>> THEN "" ELSE Head(q) \o concat(Tail(q))

HtmlInputs == {concat(q) : q \in SeqsUpTo(HtmlPieces, MaxPieces)}

\* a page that decoded: `fetched` is the answer whose body it is
HtmlInit ==
    /\ pc = "html"
    /\ \E h \in HtmlInputs :
          fetched = Response(FALSE, 200, Absent, [kind |-> "text", html |-> h])
    /\ input = NoInput
    /\ config = NoConfig
    /\ requests = <<>>
    /\ responses = <<>>
    /\ current_url = ""
    /\ gets = 0
    /\ response = NoResponse
    /\ engines = NoEngines
    /\ filter = ""
    /\ log = <<>>
    /\ result = NoResult

\* the call of strip_styles_and_scripts; `response` is what it returns
Strip ==
    /\ pc = "html"
    /\ response' = Ok(strip_styles_and_scripts(fetched.body.html))
    /\ pc' = "stripped"
    /\ UNCHANGED <<input, config, requests, responses, current_url, gets, fetched,
                   engines, filter, log, result>>

HtmlNext == Strip

HtmlSpec == HtmlInit /\ [][HtmlNext]_vars

----------------------------------------------------------------------------
(* Properties of simple_search *)

\* simple_search has returned Ok in the current call
SearchReturned == pc = "returned" /\ input.name = "search" /\ response.ok

\* the result list the backend sent, and the one simple_search returned
Sent == responses[2].body
Returned == response.value

\* the configured limit, read off the setting: a decimal number, else 5
Limit ==
    IF \E n \in 0..MaxNumResults : config.SEARXNG_NUM_RESULTS = ToString(n)
    THEN CHOOSE n \in 0..MaxNumResults : config.SEARXNG_NUM_RESULTS = ToString(n)
    ELSE 5

\* C1: whatever the backend sent and whatever limit is configured, the list
\* simple_search returns is no longer than num_results
C1_ResultCountBounded ==
    SearchReturned => Len(Returned.results) <= Limit

\* a call in which the backend sent more results than the limit and the
\* list came back cut to the limit
C1_Witness ==
    /\ SearchReturned
    /\ Len(Sent.results) > Limit
    /\ Limit > 0
    /\ Len(Returned.results) = Limit

\* x comes before y in the ranking: higher score, or equal score and sent earlier
Before(x, y) == x.score > y.score \/ (x.score = y.score /\ x.title < y.title)

\* C2: the returned results are results the backend sent, each at most once,
\* in descending order of score with equal scores in the order they were
\* sent, and every result that was dropped ranks after every result kept
C2_SortedStablePrefix ==
    SearchReturned =>
        /\ \A i \in 1..Len(Returned.results) :
              /\ Returned.results[i].title \in 1..Len(Sent.results)
              /\ Returned.results[i] = Sent.results[Returned.results[i].title]
        /\ \A i, j \in 1..Len(Returned.results) :
              i < j => Before(Returned.results[i], Returned.results[j])
        /\ \A k \in 1..Len(Sent.results) :
              (\A i \in 1..Len(Returned.results) : Returned.results[i].title # k)
                 => \A i \in 1..Len(Returned.results) :
                        Before(Returned.results[i], Sent.results[k])

\* a call in which the backend sent a tie out of rank order and a
\* higher score last, and one of the tied results was cut off
C2_Witness ==
    /\ SearchReturned
    /\ Len(Sent.results) = 3
    /\ Sent.results[1].score = Sent.results[2].score
    /\ Sent.results[3].score > Sent.results[1].score
    /\ Len(Returned.results) = 2
    /\ Returned.results[1].title = 3
    /\ Returned.results[2].title = 1

\* C3: with no more results than the limit nothing is dropped and the total
\* the backend reported is kept; with more, exactly num_results results are
\* kept and the total becomes that number
C3_Truncation ==
    SearchReturned =>
        IF Len(Sent.results) <= Limit
        THEN /\ Len(Returned.results) = Len(Sent.results)
             /\ \A k \in 1..Len(Sent.results) :
                   \E i \in 1..Len(Returned.results) : Returned.results[i] = Sent.results[k]
             /\ Returned.number_of_results = Sent.number_of_results
        ELSE /\ Len(Returned.results) = Limit
             /\ Returned.number_of_results = Limit

\* a call in which the backend sent exactly as many results as the limit
\* and reported a total that differs from that count
C3_Witness ==
    /\ SearchReturned
    /\ Limit > 0
    /\ Len(Sent.results) = Limit
    /\ Sent.number_of_results # Limit
    /\ Returned.number_of_results = Sent.number_of_results

----------------------------------------------------------------------------
(* Properties of browse's redirect loop *)

BrowseReturned == pc = "returned" /\ input.name = "browse"

\* the two settings of browse, read off the configuration
Follow == config.BROWSE_FOLLOW_REDIRECTS = "true"

MaxHops ==
    IF \E n \in 0..MaxRedirects : config.BROWSE_MAX_REDIRECTS = ToString(n)
    THEN CHOOSE n \in 0..MaxRedirects : config.BROWSE_MAX_REDIRECTS = ToString(n)
    ELSE 10

\* an answer with a status in [300,400) and a location header
RedirectAnswer(resp) ==
    ~ resp.err /\ resp.status \in 300..399 /\ resp.location # Absent

TooManyRedirects == "Browse failed: Too many redirects"

\* the location cannot be turned into the next URL
Unresolvable(cur, loc) ==
    ~ starts_with(loc, "http") /\ (~ UrlParseOk(cur) \/ ~ UrlJoinOk(cur, loc))

\* C4 as stated: when redirects are followed and the call ended on an answer
\* that is a redirect (so every answer was one), the call made at most
\* max_redirects iterations and failed with 'Too many redirects'
C4_AlwaysTooManyRedirects ==
    (BrowseReturned /\ Follow /\ RedirectAnswer(fetched)) =>
        gets <= MaxHops /\ result.text = TooManyRedirects

\* C4, amended: when redirects are followed, browse never makes more than
\* max_redirects iterations, and an answer that is a redirect either starts
\* the next iteration or ends the call with a failure: the redirect-resolution
\* failure if the location cannot be resolved, else 'Too many redirects',
\* which is returned exactly when max_redirects iterations have been made
C4_RedirectsTerminate ==
    /\ [](pc = "fetch" => gets \in 1..MaxHops)
    /\ [][(pc = "fetch" /\ Follow /\ RedirectAnswer(fetched')) =>
            IF Unresolvable(current_url, fetched'.location)
            THEN /\ pc' = "returned"
                 /\ gets' = gets
                 /\ result'.is_error
                 /\ starts_with(result'.text, "Browse failed: Failed to ")
            ELSE IF gets = MaxHops
            THEN /\ pc' = "returned"
                 /\ gets' = gets
                 /\ result'.is_error
                 /\ result'.text = TooManyRedirects
            ELSE /\ pc' = "fetch"
                 /\ gets' = gets + 1]_vars

\* a call that followed redirects through all of at least two iterations
\* and failed with 'Too many redirects'
C4_Witness ==
    /\ BrowseReturned
    /\ Follow
    /\ RedirectAnswer(fetched)
    /\ gets = MaxHops
    /\ gets >= 2
    /\ result.text = TooManyRedirects

----------------------------------------------------------------------------
(* Properties of the search tool *)

\* the success predicate as the specification words it
Successful(resp) ==
    ~ resp.err /\ (resp.status \in 200..299 \/ (resp.status = 0 /\ resp.body.kind # "empty"))

\* the base URL in use, read off the configuration
BaseUrl ==
    IF config.SEARXNG_BASE_URL = Absent THEN "http://localhost:8080"
    ELSE config.SEARXNG_BASE_URL

\* C5: in a search call a request to /search is only ever the second
\* request, after the probe of /config got an answer that satisfies the
\* success predicate; when the probe fails the call ends with that single
\* request and with one of the two connection texts, neither of which is the
\* text of a failed query
C5_ProbeBeforeSearch ==
    input.name = "search" =>
        /\ \A i \in 1..Len(requests) :
              requests[i].url = BaseUrl \o "/search" =>
                 /\ i = 2
                 /\ requests[1].url = BaseUrl \o "/config"
                 /\ Len(responses) >= 1
                 /\ Successful(responses[1])
        /\ (Len(responses) >= 1 /\ ~ Successful(responses[1])) =>
              /\ pc = "returned"
              /\ requests = <<Request(BaseUrl \o "/config")>>
              /\ result.is_error
              /\ IF responses[1].err
                 THEN starts_with(result.text, "Connection test failed: ")
                 ELSE result.text = "Unable to connect to SearXNG server"
              /\ ~ starts_with(result.text, "Search failed: ")
        /\ (pc = "returned" /\ Len(responses) = 2 /\ result.is_error) =>
              starts_with(result.text, "Search failed: ")

\* a search call whose probe got a 404 and that ended without a query
C5_Witness ==
    /\ pc = "returned"
    /\ input.name = "search"
    /\ Len(responses) = 1
    /\ responses[1].status = 404
    /\ Len(requests) = 1
    /\ result.text = "Unable to connect to SearXNG server"

----------------------------------------------------------------------------
(* Properties of the dispatcher *)

\* the argument is present, a string and not empty
GoodArgument(j) == j.t = "string" /\ j.v # ""

NoHttp == requests = <<>> /\ responses = <<>> /\ gets = 0 /\ fetched = NoFetch

\* C6: a search call without a non-empty string query, and a browse call
\* without a non-empty string url, returns the validation error and issues
\* no HTTP request
C6_ValidationNoHttp ==
    /\ (input.name = "search" /\ ~ GoodArgument(input.arguments.query)) =>
          /\ pc = "returned"
          /\ result = [ret |-> "Ok", is_error |-> TRUE, mime_type |-> Absent,
                       text |-> "Please provide a non-empty query string"]
          /\ NoHttp
    /\ (input.name = "browse" /\ ~ GoodArgument(input.arguments.url)) =>
          /\ pc = "returned"
          /\ result = [ret |-> "Ok", is_error |-> TRUE, mime_type |-> Absent,
                       text |-> "Please provide a non-empty url string"]
          /\ NoHttp

\* a browse call with the empty string as url, answered with the validation error
C6_Witness ==
    /\ pc = "returned"
    /\ input.name = "browse"
    /\ input.arguments.url = JStr("")
    /\ result.text = "Please provide a non-empty url string"
    /\ NoHttp

----------------------------------------------------------------------------
(* Properties of get_engines *)

EnginesReturned ==
    pc = "returned" /\ input.name \in {"describe", "get_engines"} /\ engines.ok

\* the engines array of the answer
Entries == responses[1].body.engines

Named(e) == e.name.t = "string"

\* the names of the named entries that satisfy P
NamesWhere(P(_)) ==
    {Entries[i].name.v : i \in {k \in 1..Len(Entries) : Named(Entries[k]) /\ P(Entries[k])}}

AnyEntry(e) == TRUE
EnabledTrue(e) == e.enabled = [t |-> "bool", v |-> "true"]
EnabledFalse(e) == e.enabled = [t |-> "bool", v |-> "false"]
EnabledNotTrue(e) == ~ EnabledTrue(e)

\* C7 as stated: All returns the named entries, Enabled those whose enabled
\* is true, Disabled the rest of the named entries (enabled false, absent
\* or not a boolean)
C7_DisabledIsComplement ==
    EnginesReturned =>
        DOMAIN engines.value =
            CASE filter = "All" -> NamesWhere(AnyEntry)
              [] filter = "Enabled" -> NamesWhere(EnabledTrue)
              [] filter = "Disabled" -> NamesWhere(EnabledNotTrue)

\* the last entry of the array with name n that satisfies P
LastWhere(n, P(_)) ==
    Entries[CHOOSE i \in 1..Len(Entries) :
               /\ Entries[i].name = [t |-> "string", v |-> n]
               /\ P(Entries[i])
               /\ \A j \in (i + 1)..Len(Entries) :
                     ~ (Entries[j].name = [t |-> "string", v |-> n] /\ P(Entries[j]))]

\* C7, amended: the map get_engines returns has, for All, the names of the
\* named entries; for Enabled, of those whose enabled is the boolean true;
\* for Disabled, of those whose enabled is the boolean false; a name is
\* mapped to the last such entry of the array.  An entry whose enabled is
\* absent or not a boolean is returned by neither Enabled nor Disabled
C7_EngineFilter ==
    EnginesReturned =>
        /\ filter = "All" =>
              /\ DOMAIN engines.value = NamesWhere(AnyEntry)
              /\ \A n \in DOMAIN engines.value : engines.value[n] = LastWhere(n, AnyEntry)
        /\ filter = "Enabled" =>
              /\ DOMAIN engines.value = NamesWhere(EnabledTrue)
              /\ \A n \in DOMAIN engines.value : engines.value[n] = LastWhere(n, EnabledTrue)
        /\ filter = "Disabled" =>
              /\ DOMAIN engines.value = NamesWhere(EnabledFalse)
              /\ \A n \in DOMAIN engines.value : engines.value[n] = LastWhere(n, EnabledFalse)

\* get_engines(Disabled) answered with an engine that is disabled and one
\* that has no enabled field: only the first is returned
C7_Witness ==
    /\ EnginesReturned
    /\ filter = "Disabled"
    /\ Len(Entries) = 2
    /\ Entries[1] = [name |-> JStr("a"), enabled |-> JBool(FALSE)]
    /\ Entries[2] = [name |-> JStr("b"), enabled |-> JMissing]
    /\ DOMAIN engines.value = {"a"}

----------------------------------------------------------------------------
(* Properties of browse's handling of one answer *)

\* a further GET was issued in this step
FurtherGet == pc' = "fetch" /\ gets' = gets + 1

\* the call ended on an answer with a 3xx status
EndedOn3xx == BrowseReturned /\ ~ fetched.err /\ fetched.status \in 300..399

\* C8 as stated, its first sentence: an answer is followed by a further GET
\* exactly when its status is in [300,400), redirects are followed and it
\* has a location
C8_FollowedIffRedirect ==
    [][pc = "fetch" => (FurtherGet <=> (Follow /\ RedirectAnswer(fetched')))]_vars

\* C8, amended: a further GET is issued only after an answer whose status
\* is in [300,400) and that has a location while redirects are followed,
\* and then exactly when the location resolves and fewer than max_redirects
\* GETs have been issued; every other answer ends the call.  With
\* follow_redirects disabled browse issues one GET (none when max_redirects
\* is 0), and a 3xx that is not followed ends the call with the HTTP-error
\* failure
C8_FollowedOnlyIfRedirect ==
    /\ [][pc = "fetch" =>
            /\ FurtherGet <=>
                  /\ Follow
                  /\ RedirectAnswer(fetched')
                  /\ ~ Unresolvable(current_url, fetched'.location)
                  /\ gets < MaxHops
            /\ ~ FurtherGet => (pc' = "returned" /\ gets' = gets)]_vars
    /\ []((BrowseReturned /\ GoodArgument(input.arguments.url) /\ ~ Follow) =>
             gets = IF MaxHops = 0 THEN 0 ELSE 1)
    /\ []((EndedOn3xx /\ (~ Follow \/ fetched.location = Absent)) =>
             starts_with(result.text, "Browse failed: HTTP Error: 3"))

\* a call with follow_redirects disabled that got a 301 with a location and
\* ended after that one GET with the HTTP-error failure
C8_Witness ==
    /\ EndedOn3xx
    /\ ~ Follow
    /\ fetched.status = 301
    /\ fetched.location = "/new"
    /\ gets = 1
    /\ starts_with(result.text, "Browse failed: HTTP Error: 301")

----------------------------------------------------------------------------
(* The success predicate *)

\* browse ended on an answer it did not treat as a redirect
EndedOnTerminal ==
    BrowseReturned /\ fetched # NoFetch /\ ~ fetched.err
        /\ ~ (Follow /\ RedirectAnswer(fetched))

\* search ended on the answer to its query
EndedOnQuery ==
    pc = "returned" /\ input.name = "search" /\ Len(responses) = 2 /\ ~ responses[2].err

\* C9: in browse, in search, in the probe and in get_engines an answer is
\* rejected as an HTTP failure exactly when it does not satisfy the one
\* predicate (status in [200,300), or status 0 with a non-empty body); an
\* answer that satisfies it and can be decoded makes browse and search succeed
C9_SuccessPredicate ==
    /\ EndedOnTerminal =>
          /\ starts_with(result.text, "Browse failed: HTTP Error: ") <=> ~ Successful(fetched)
          /\ (Successful(fetched) /\ fetched.body.kind # "binary") =>
                (~ result.is_error /\ result.mime_type = "text/markdown")
    /\ EndedOnQuery =>
          /\ starts_with(result.text, "Search failed: HTTP Error: ")
                <=> ~ Successful(responses[2])
          /\ (Successful(responses[2]) /\ responses[2].body.kind = "json") =>
                (~ result.is_error /\ result.mime_type = "application/json")
    /\ (input.name = "search" /\ Len(responses) >= 1 /\ ~ responses[1].err) =>
          (result.text = "Unable to connect to SearXNG server" <=> ~ Successful(responses[1]))
    /\ (pc = "returned" /\ input.name \in {"describe", "get_engines"} /\ ~ responses[1].err) =>
          (engines.error = "Unable to get search engines" <=> ~ Successful(responses[1]))

\* a browse call whose only answer had status 0 and a non-empty body, and
\* that returned Markdown
C9_Witness ==
    /\ EndedOnTerminal
    /\ fetched.status = 0
    /\ fetched.body.kind = "text"
    /\ ~ result.is_error
    /\ result.text = "<markdown>"

----------------------------------------------------------------------------
(* The entry point call *)

CallReturned == pc = "returned" /\ input.name \in ToolNames

\* the call went through: both exchanges of search, or the fetch of browse
Succeeded ==
    \/ /\ input.name = "search"
       /\ GoodArgument(input.arguments.query)
       /\ Len(responses) = 2
       /\ Successful(responses[1])
       /\ Successful(responses[2])
       /\ responses[2].body.kind = "json"
    \/ /\ input.name = "browse"
       /\ GoodArgument(input.arguments.url)
       /\ fetched # NoFetch
       /\ Successful(fetched)
       /\ ~ (Follow /\ RedirectAnswer(fetched))
       /\ fetched.body.kind # "binary"

ErrorPrefixes ==
    {"Unknown tool: ", "Please provide a non-empty ", "Connection test failed: ",
     "Unable to connect to SearXNG serve", "Search failed: ", "Browse failed: "}

\* C10: whatever the tool name, the arguments and the answers of the host,
\* call returns a result value, never an error of its own; the result has
\* is_error set exactly when the call did not go through, and then carries a
\* text that says what failed
C10_CallAlwaysReturnsResult ==
    CallReturned =>
        /\ result.ret = "Ok"
        /\ result.is_error <=> ~ Succeeded
        /\ result.is_error =>
              \E p \in ErrorPrefixes : starts_with(result.text, p) /\ Len(result.text) > Len(p)

\* a search call whose query was answered with a body that is not the
\* expected JSON
C10_Witness ==
    /\ CallReturned
    /\ result.is_error
    /\ result.text = "Search failed: Failed to parse response: <serde error>"

----------------------------------------------------------------------------
(* C11, C12: the request of search *)

\* search has sent its request, which is the latest one
SearchSent ==
    /\ pc \in {"query", "returned"}
    /\ requests # <<>>
    /\ requests[Len(requests)].url = BaseUrl \o "/search"

SearchRequest == requests[Len(requests)]

\* the value the request carries for a parameter, Absent if it carries none
Carried(key) ==
    LET q == SearchRequest.query
    IN  IF \E i \in 1..Len(q) : q[i][1] = key
        THEN q[CHOOSE i \in 1..Len(q) : q[i][1] = key][2]
        ELSE Absent

\* how often the request carries a parameter
Times(key) ==
    Cardinality({i \in 1..Len(SearchRequest.query) : SearchRequest.query[i][1] = key})

\* the SearchParams of the call: the ones handed to search, or the ones
\* the search tool makes up from the query and the two configured lists
ByTool == input.name = "search"

SafeSearchSetting == config.SEARXNG_SAFE_SEARCH

NoLevelOverride == ByTool \/ input.arguments.safe_search = NoNumber

\* C11 as stated: the level sent without an override is the configured one
\* for "0", "1", "2", and moderate (1) for any other setting and also when the
\* setting is absent
C11_AbsentIsModerate ==
    (SearchSent /\ NoLevelOverride) =>
        Carried("safesearch") =
            (IF SafeSearchSetting = "0" THEN "0"
             ELSE IF SafeSearchSetting = "2" THEN "2"
             ELSE "1")

\* C11: the level sent without an override is none (0) for the setting "0",
\* moderate (1) for "1", strict (2) for "2", moderate (1) for any other
\* value of the setting, and none (0) when the setting is absent
C11_EffectiveSafeSearch ==
    (SearchSent /\ NoLevelOverride) =>
        Carried("safesearch") =
            (IF SafeSearchSetting \in {Absent, "0"} THEN "0"
             ELSE IF SafeSearchSetting = "2" THEN "2"
             ELSE "1")

\* a search of the tool with no safe-search setting has sent safesearch=0
C11_Witness ==
    /\ SearchSent
    /\ ByTool
    /\ SafeSearchSetting = Absent
    /\ Carried("safesearch") = "0"

\* the list parameter simple_search makes of a configured list: its
\* non-blank items joined by commas, none when there is no item
ListParam(setting) ==
    IF setting \in {Absent, ""} THEN Absent
    ELSE IF setting = "a, ,b" THEN "a,b"
    ELSE setting

\* the SearchParams of the call, optional numbers as their decimal text
Params ==
    IF ByTool
    THEN [query |-> input.arguments.query.v,
          categories |-> ListParam(config.SEARXNG_DEFAULT_CATEGORIES),
          engines |-> ListParam(config.SEARXNG_DEFAULT_ENGINES),
          language |-> Absent, pageno |-> Absent, time_range |-> Absent,
          safe_search |-> Absent]
    ELSE [input.arguments EXCEPT
            !.pageno = IF @ = NoNumber THEN Absent ELSE ToString(@),
            !.safe_search = IF @ = NoNumber THEN Absent ELSE ToString(@)]

ConfiguredLanguage ==
    IF config.SEARXNG_DEFAULT_LANGUAGE = Absent THEN "en"
    ELSE config.SEARXNG_DEFAULT_LANGUAGE

ConfiguredLevel ==
    IF SafeSearchSetting \in {Absent, "0"} THEN "0"
    ELSE IF SafeSearchSetting = "2" THEN "2"
    ELSE "1"

RequiredKeys == {"q", "format", "language", "safesearch"}
OptionalKeys == {"categories", "engines", "pageno", "time_range"}

\* C12: the request of search is a GET that carries q, format=json, language
\* and safesearch once each, carries categories, engines, pageno and
\* time_range exactly when the parameter was provided and then with its
\* value, and no other parameter; language and safesearch are the override
\* of the call when there is one, else the configured value, safesearch as
\* the number of the level
C12_RequestParameters ==
    SearchSent =>
        /\ SearchRequest.method = "GET"
        /\ \A i \in 1..Len(SearchRequest.query) :
              SearchRequest.query[i][1] \in RequiredKeys \cup OptionalKeys
        /\ \A k \in RequiredKeys : Times(k) = 1
        /\ Carried("q") = Params.query
        /\ Carried("format") = "json"
        /\ \A k \in OptionalKeys :
              /\ Times(k) = (IF Params[k] = Absent THEN 0 ELSE 1)
              /\ Carried(k) = Params[k]
        /\ Carried("language") =
              (IF Params.language = Absent THEN ConfiguredLanguage ELSE Params.language)
        /\ Carried("safesearch") =
              (IF Params.safe_search = Absent THEN ConfiguredLevel ELSE Params.safe_search)
        /\ Carried("safesearch") \in {"0", "1", "2"}

\* a search with categories and a page number but no engines and no time
\* range, whose language and level are the ones of the call
C12_Witness ==
    /\ SearchSent
    /\ ~ ByTool
    /\ input.arguments.categories = "news" /\ Carried("categories") = "news"
    /\ input.arguments.pageno = 2 /\ Carried("pageno") = "2"
    /\ input.arguments.engines = Absent /\ Times("engines") = 0
    /\ input.arguments.time_range = Absent /\ Times("time_range") = 0
    /\ input.arguments.language = "de" /\ Carried("language") = "de"
    /\ input.arguments.safe_search = SafeSearchStrict /\ Carried("safesearch") = "2"

\* a search whose language and level are the configured ones, the call
\* overriding neither
C12_WitnessConfigured ==
    /\ SearchSent
    /\ ~ ByTool
    /\ config.SEARXNG_DEFAULT_LANGUAGE = "fr" /\ SafeSearchSetting = "2"
    /\ input.arguments.language = Absent /\ Carried("language") = "fr"
    /\ input.arguments.safe_search = NoNumber /\ Carried("safesearch") = "2"

----------------------------------------------------------------------------
(* C14 - C16: the redirect loop of browse *)

ParseFailure == "Browse failed: Failed to parse current URL: "
JoinFailure == "Browse failed: Failed to resolve relative URL: "

\* C14: when redirects are followed and the location of a redirect cannot
\* be resolved (the current URL does not parse, or the location cannot be
\* joined to it), the call ends at that answer, whatever is left of the hop
\* budget, with no further GET and with the resolution error of the case,
\* which is not 'Too many redirects'
C14_ResolutionFailureEndsCall ==
    [][(/\ pc = "fetch"
        /\ Follow
        /\ RedirectAnswer(fetched')
        /\ Unresolvable(current_url, fetched'.location)) =>
            /\ pc' = "returned"
            /\ gets' = gets
            /\ current_url' = current_url
            /\ result'.is_error
            /\ result'.text # TooManyRedirects
            /\ starts_with(result'.text,
                   IF ~ UrlParseOk(current_url) THEN ParseFailure ELSE JoinFailure)]_vars

\* a call for a url that does not parse, with nine hops of the default
\* budget left, ended at a redirect to a path
C14_Witness ==
    /\ BrowseReturned
    /\ Follow
    /\ RedirectAnswer(fetched)
    /\ fetched.location = "/new"
    /\ current_url = "a/p"
    /\ gets = 1
    /\ MaxHops = 10
    /\ starts_with(result.text, ParseFailure)

\* a call ended at the last hop of its budget by a location that cannot be
\* joined
C14_WitnessLastHop ==
    /\ BrowseReturned
    /\ Follow
    /\ RedirectAnswer(fetched)
    /\ gets = MaxHops
    /\ gets >= 2
    /\ starts_with(result.text, JoinFailure)

\* the answer ends the call with the converted page
TerminalSuccess(resp) ==
    /\ Successful(resp)
    /\ ~ (Follow /\ RedirectAnswer(resp))
    /\ resp.body.kind # "binary"

\* the answer is a redirect that browse follows: its location resolves
FollowedRedirect(cur, resp) ==
    /\ Follow
    /\ RedirectAnswer(resp)
    /\ ~ Unresolvable(cur, resp.location)

\* C15: browse issues at most max_redirects GETs, the fetch of the final
\* page among them. A call whose url passed validation returns 'Too many
\* redirects' without any GET exactly when max_redirects is 0; an answer
\* to the n-th GET that is a followed redirect is followed by a further GET
\* when n < max_redirects, and by 'Too many redirects' when n =
\* max_redirects, which no other answer leads to; a successful final answer
\* to any GET that was issued (so after fewer than max_redirects followed
\* redirects) makes the call return success
C15_HopBudget ==
    /\ [](input.name = "browse" => gets <= MaxHops)
    /\ []((BrowseReturned /\ ~ result.is_error) => (gets >= 1 /\ gets - 1 < MaxHops))
    /\ [][(pc = "idle" /\ input'.name = "browse" /\ GoodArgument(input'.arguments.url)) =>
            IF MaxHops' = 0
            THEN pc' = "returned" /\ gets' = 0 /\ result'.text = TooManyRedirects
            ELSE pc' = "fetch" /\ gets' = 1]_vars
    /\ [][pc = "fetch" =>
            /\ FollowedRedirect(current_url, fetched') =>
                  IF gets < MaxHops
                  THEN pc' = "fetch" /\ gets' = gets + 1
                  ELSE pc' = "returned" /\ gets' = gets /\ result'.text = TooManyRedirects
            /\ result'.text = TooManyRedirects =>
                  (gets = MaxHops /\ FollowedRedirect(current_url, fetched'))
            /\ TerminalSuccess(fetched') =>
                  (pc' = "returned" /\ gets' = gets /\ ~ result'.is_error)]_vars

\* with max_redirects = 3, a call that followed two redirects and returned
\* the page its third GET fetched
C15_Witness ==
    /\ BrowseReturned
    /\ Follow
    /\ MaxHops = 3
    /\ gets = 3
    /\ TerminalSuccess(fetched)
    /\ ~ result.is_error

\* with max_redirects = 0, a call that returned without any GET
C15_WitnessNoGet ==
    /\ BrowseReturned
    /\ GoodArgument(input.arguments.url)
    /\ MaxHops = 0
    /\ gets = 0
    /\ fetched = NoFetch
    /\ result.text = TooManyRedirects

\* the URL a location stands for, seen from the URL it was received at: the
\* location as given when it begins with a scheme prefix, else the location
\* resolved relative to that URL
Resolved(cur, loc) == IF HasScheme(loc) THEN loc ELSE UrlJoin(cur, loc)

\* C16: when a GET follows the answer to a GET, it goes to the URL resolved
\* from the location of that answer: the location as given when it begins
\* with a scheme prefix, else the location resolved relative to the URL of
\* the GET that was answered
C16_NextGetFollowsLocation ==
    [][(pc = "fetch" /\ FurtherGet) =>
            current_url' = Resolved(current_url, fetched'.location)]_vars

----------------------------------------------------------------------------
(* C17: describe *)

DescribeReturned == pc = "returned" /\ input.name = "describe"

\* the answer to the introspection of the engines is of no use: a transport
\* error, a status that is no success, a body that is no JSON, or JSON
\* without an engines array
IntrospectionFailed(resp) ==
    \/ resp.err
    \/ ~ Successful(resp)
    \/ resp.body.kind # "json"
    \/ ~ resp.body.has_engines

\* C17: describe returns the listing of exactly the two tools search and
\* browse, in that order, whatever the answer to the introspection of the
\* engines; it made that one request, and a failed introspection shows only
\* as a warning in the log, a successful one as a line of information
C17_DescribeAlwaysLists ==
    DescribeReturned =>
        /\ result.ret = "Ok"
        /\ result.tools = <<"search", "browse">>
        /\ Len(requests) = 1
        /\ Len(responses) = 1
        /\ Len(log) = 1
        /\ IF IntrospectionFailed(responses[1])
           THEN starts_with(log[1], "warn: Failed to fetch SearXNG engines: ")
           ELSE starts_with(log[1], "info: ")

\* a describe whose introspection was answered with JSON that has no
\* engines array
C17_Witness ==
    /\ DescribeReturned
    /\ ~ responses[1].err
    /\ responses[1].status = 200
    /\ responses[1].body.kind = "json"
    /\ ~ responses[1].body.has_engines
    /\ log = <<"warn: Failed to fetch SearXNG engines: Unexpected response format">>
    /\ result.tools = <<"search", "browse">>

\* a describe whose introspection met a transport error
C17_WitnessTransport ==
    /\ DescribeReturned
    /\ responses[1].err
    /\ result.tools = <<"search", "browse">>

----------------------------------------------------------------------------
(* C13: the sanitiser *)

Stripped == pc = "stripped"

Page == fetched.body.html

Cleaned == response.value

\* the text, in lower case, has a complete element of the tag: an opening
\* tag that is closed by ">", and after it a closing tag
HasElement(low, tag) ==
    \E i \in 1..(Len(low) - Len(tag)) :
        /\ SubSeq(low, i, i + Len(tag)) = "<" \o tag
        /\ \E j \in (i + Len(tag) + 1)..Len(low) :
              /\ SubSeq(low, j, j) = ">"
              /\ \A k \in (i + Len(tag) + 1)..(j - 1) : SubSeq(low, k, k) # ">"
              /\ \E c \in (j + 1)..(Len(low) - Len(tag) - 2) :
                    SubSeq(low, c, c + Len(tag) + 2) = "</" \o tag \o ">"

\* a is b with some characters left out: what is kept is unchanged and in
\* order
RECURSIVE KeptInOrder(_, _)
KeptInOrder(a, b) ==
    IF a = "" THEN TRUE
    ELSE IF b = "" THEN FALSE
    ELSE IF SubSeq(a, 1, 1) = SubSeq(b, 1, 1) THEN KeptInOrder(DropStr(a, 1), DropStr(b, 1))
    ELSE KeptInOrder(a, DropStr(b, 1))

\* C13: the output of strip_styles_and_scripts has no complete style
\* element and no complete script element, in any letter case, also when
\* the element is complete only once an inner element is removed; what it
\* keeps of the page is unchanged and in order, and a page without a
\* complete element of either kind (opening tags that are never closed
\* included) is kept whole
C13_NoElementLeft ==
    Stripped =>
        /\ ~ HasElement(lower(Cleaned), "style")
        /\ ~ HasElement(lower(Cleaned), "script")
        /\ KeptInOrder(Cleaned, Page)
        /\ (~ HasElement(lower(Page), "style") /\ ~ HasElement(lower(Page), "script"))
              => Cleaned = Page

====
